---- MODULE Spec2Model ----
(***************************************************************************)
(* Model of Client/web_streaming.py: CameraInferenceService (the shared    *)
(* latest-frame slot, its capture thread and its frame_generator           *)
(* sessions), the /stream handler that drains a generator into a           *)
(* connection, and the controller path main() -> start() ... stop(); and   *)
(* of Client/record.py: CCTVRecorder.run() with its signal handler.        *)
(*                                                                         *)
(* Threads of the streaming model:                                         *)
(*   - the controller (main): start(), then stop();                        *)
(*   - the capture thread running _loop;                                   *)
(*   - one thread per session running do_GET("/stream"), i.e. a            *)
(*     frame_generator drained into wfile.                                 *)
(* The capture thread's shared writes are steps of their own, and so are   *)
(* a session's lock operations and its reads of the _stop Event, so that   *)
(* the lock of self._condition is what orders them.                        *)
(*                                                                         *)
(* Specifications:                                                         *)
(*   Spec          the service with each session on a thread of its own,   *)
(*                 as a thread-per-connection server drives it;            *)
(*   FairSpec      Spec with the scheduling of sessions and of the         *)
(*                 capture thread's critical section;                      *)
(*   FairLoopSpec  FairSpec with the scheduling of the whole capture loop; *)
(*   SpecServer    the service as main() drives it: http.server.HTTPServer *)
(*                 handles one request at a time on the main thread;       *)
(*   SpecRecorder  record.py, a program of its own.                        *)
(***************************************************************************)
EXTENDS Integers, Sequences, FiniteSets, TLC

\* ---------------------------------------------------------------- bounds
NumSessions == 2      \* session threads that may call frame_generator
MaxFrames == 3        \* frames encoded before the camera only fails
MaxChildren == 2      \* record.py: children Popen starts in a run
MaxSignals == 2       \* record.py: SIGINT/SIGTERM delivered in a run

\* ------------------------------------------------------ program constants
InitialLastSeq == -1  \* frame_generator: last_seq = -1
InitialFrameSeq == 0  \* __init__: self._frame_seq = 0
ConfigJpegQuality == 80
MinJpegQuality == 10
MaxJpegQuality == 95
START_HOUR == 6       \* record.py
END_HOUR == 17        \* record.py

\* Python's None (self._latest_original, frame, bgr, orig_buf before a value)
None == <<>>

\* Owners of the lock inside self._condition
Unlocked == -1
CaptureThread == 0
Sessions == 1..NumSessions

\* record.py: self.process = None; the children Popen starts are numbered
NoProcess == 0
Children == 1..MaxChildren

VARIABLES
    mpc,              \* controller position: main() / start() / stop()
    camera,           \* picam2: "created", "started", "closed"
    stop,             \* self._stop (threading.Event)
    lock,             \* owner of self._condition's lock
    latest_original,  \* self._latest_original
    frame_seq,        \* self._frame_seq
    cpc,              \* capture thread position in _loop
    bgr,              \* _loop local: the raw frame
    ok_orig,          \* _loop local: imencode's flag
    orig_buf,         \* _loop local: imencode's buffer
    encoded,          \* frames imencode has encoded so far
    pc,               \* per session: position in do_GET / frame_generator
    last_seq,         \* per session: frame_generator local last_seq
    frame,            \* per session: frame_generator local frame
    seq,              \* per session: frame_generator local seq
    wfile,            \* per session: the last chunk written to the connection
    late_pub,         \* history: publishes made with _stop already set
    late_parts,       \* history, per session: parts written with _stop set
    rpc,              \* record.py: position of the main flow in run()
    process,          \* record.py: self.process
    running,          \* record.py: self.running
    alive,            \* record.py: the rpicam-vid children that are running
    spawned,          \* record.py: children started so far by Popen
    signals           \* record.py: SIGINT/SIGTERM delivered so far

vars == <<mpc, camera, stop, lock, latest_original, frame_seq, cpc, bgr,
          ok_orig, orig_buf, encoded, pc, last_seq, frame, seq, wfile,
          late_pub, late_parts, rpc, process, running, alive, spawned,
          signals>>

hub == <<stop, lock, latest_original, frame_seq>>
capture_locals == <<bgr, ok_orig, orig_buf, encoded>>
session_vars == <<pc, last_seq, frame, seq, wfile>>
main_vars == <<mpc, camera>>
late == <<late_pub, late_parts>>
recorder == <<rpc, process, running, alive, spawned, signals>>
streaming == <<main_vars, hub, cpc, capture_locals, session_vars, late>>

\* ------------------------------------------------------------ pure parts

Min(a, b) == IF a < b THEN a ELSE b
Max(a, b) == IF a > b THEN a ELSE b

\* _loop: jpeg_quality = int(max(10, min(95, self.config.jpeg_quality)))
JpegQuality == Max(MinJpegQuality, Min(MaxJpegQuality, ConfigJpegQuality))

\* picam2.capture_array(): a raw frame.  Raw frames are told apart by the
\* serial number n of the encoding they get; a frame the encoder rejects is
\* never looked at again and needs no identity of its own.
RawFrame(n) == <<"raw", n>>

\* cv2.imencode(".jpg", bgr, encode_params) followed by orig_buf.tobytes()
Encode(raw) == <<"jpg", JpegQuality, raw[2]>>

\* frame_generator: boundary + header + frame + CRLF
Part(f) == <<"--frame", "Content-Type: image/jpeg", f, "CRLF">>

\* what one write to wfile puts on the connection, with the seq it was
\* taken at; NoChunk: nothing has been put on it yet
Chunk(f, v) == [part |-> Part(f), seq |-> v]
NoChunk == [part |-> None, seq |-> InitialLastSeq]

\* Fault variant of NextSeq: a counter kept in one bit, which wraps
NextSeqWrapping(v) == (v + 1) % 2
\* self._frame_seq += 1
NextSeq(v) == v + 1

\* Fault variant of FrameAbsent: the None test left out
FrameAbsentIgnored(f) == FALSE
\* frame_generator: if frame is None: continue
FrameAbsent(f) == f = None

\* Fault variant of TakeSeq: the session steps to the version after the
\* one it saw, as a reader of a queue would
TakeSeqQueued(s) ==
    IF last_seq[s] < frame_seq THEN last_seq[s] + 1 ELSE frame_seq
\* frame_generator: seq = self._frame_seq
TakeSeq(s) == frame_seq

\* ---------------------------------------------------------------- Init

Init ==
    /\ mpc = "init"
    /\ camera = "created"
    /\ stop = FALSE
    /\ lock = Unlocked
    /\ latest_original = None
    /\ frame_seq = InitialFrameSeq
    /\ cpc = "notstarted"
    /\ bgr = None
    /\ ok_orig = FALSE
    /\ orig_buf = None
    /\ encoded = 0
    /\ pc = [s \in Sessions |-> "idle"]
    /\ last_seq = [s \in Sessions |-> InitialLastSeq]
    /\ frame = [s \in Sessions |-> None]
    /\ seq = [s \in Sessions |-> InitialFrameSeq]
    /\ wfile = [s \in Sessions |-> NoChunk]
    /\ late_pub = 0
    /\ late_parts = [s \in Sessions |-> 0]
    /\ rpc = "while"
    /\ process = NoProcess
    /\ running = TRUE
    /\ alive = {}
    /\ spawned = 0
    /\ signals = 0

\* ------------------------------------------------- controller: main()

\* main(): service.start() -- configure and start the camera, start _loop
Start ==
    /\ mpc = "init"
    /\ mpc' = "serving"
    /\ camera' = "started"
    /\ cpc' = "loop"
    /\ UNCHANGED <<recorder, late, hub, capture_locals, session_vars>>

\* Fault variant of StopSet: stop() also drops the stored frame
StopSetClearsFrame ==
    /\ mpc = "serving"
    /\ stop' = TRUE
    /\ mpc' = "join"
    /\ latest_original' = None
    /\ UNCHANGED <<recorder, late, camera, lock, frame_seq, cpc,
                   capture_locals, session_vars>>

\* stop(): self._stop.set()   (an Event: no condition lock, no notify)
StopSet ==
    /\ mpc = "serving"
    /\ stop' = TRUE
    /\ mpc' = "join"
    /\ UNCHANGED <<recorder, late, camera, lock, latest_original, frame_seq,
                   cpc, capture_locals, session_vars>>

\* stop(): if thread alive: join(timeout=2.0) -- returns when _loop has
\* returned, or when the 2 s have passed; then self.picam2.stop() and
\* self.picam2.close(), errors swallowed
JoinAndRelease ==
    /\ mpc = "join"
    /\ camera' = "closed"
    /\ mpc' = "exited"
    /\ UNCHANGED <<recorder, late, hub, cpc, capture_locals, session_vars>>

\* ------------------------------------------------ capture thread: _loop

\* Fault variant of LoopCheck: while True, the Event is never looked at
LoopCheckIgnoresStop ==
    /\ cpc = "loop"
    /\ cpc' = "capture"
    /\ UNCHANGED <<recorder, late, main_vars, hub, capture_locals,
                   session_vars>>

\* while not self._stop.is_set():
LoopCheck ==
    /\ cpc = "loop"
    /\ cpc' = IF stop THEN "exit" ELSE "capture"
    /\ UNCHANGED <<recorder, late, main_vars, hub, capture_locals,
                   session_vars>>

\* Fault variant of CaptureRaises: no try/except, the exception ends _loop
CaptureRaisesEndsLoop ==
    /\ cpc = "capture"
    /\ cpc' = "exit"
    /\ UNCHANGED <<recorder, late, main_vars, hub, capture_locals,
                   session_vars>>

\* bgr = self.picam2.capture_array() raises: print, sleep(0.2), continue
CaptureRaises ==
    /\ cpc = "capture"
    /\ cpc' = "loop"
    /\ UNCHANGED <<recorder, late, main_vars, hub, capture_locals,
                   session_vars>>

\* capture_array() returns None: sleep(0.05), continue
CaptureNone ==
    /\ cpc = "capture"
    /\ camera = "started"
    /\ bgr' = None
    /\ cpc' = "loop"
    /\ UNCHANGED <<recorder, late, main_vars, hub, ok_orig, orig_buf, encoded,
                   session_vars>>

\* capture_array() returns a raw frame
CaptureOk ==
    /\ cpc = "capture"
    /\ camera = "started"
    /\ encoded < MaxFrames
    /\ bgr' = RawFrame(encoded + 1)
    /\ cpc' = "encode"
    /\ UNCHANGED <<recorder, late, main_vars, hub, ok_orig, orig_buf, encoded,
                   session_vars>>

\* ok_orig, orig_buf = cv2.imencode(".jpg", bgr, encode_params) succeeds;
\* if not ok_orig is false, so the cycle goes on to publish
EncodeOk ==
    /\ cpc = "encode"
    /\ ok_orig' = TRUE
    /\ orig_buf' = Encode(bgr)
    /\ encoded' = encoded + 1
    /\ cpc' = "acquire"
    /\ UNCHANGED <<recorder, late, main_vars, hub, bgr, session_vars>>

\* Fault variant of EncodeFails: the continue left out, the cycle publishes
EncodeFailsPublishes ==
    /\ cpc = "encode"
    /\ ok_orig' = FALSE
    /\ orig_buf' = None
    /\ cpc' = "acquire"
    /\ UNCHANGED <<recorder, late, main_vars, hub, bgr, encoded,
                   session_vars>>

\* imencode fails (ok_orig false); if not ok_orig: print, continue
EncodeFails ==
    /\ cpc = "encode"
    /\ ok_orig' = FALSE
    /\ orig_buf' = None
    /\ cpc' = "loop"
    /\ UNCHANGED <<recorder, late, main_vars, hub, bgr, encoded,
                   session_vars>>

\* with self._condition:   (enter)
LoopAcquire ==
    /\ cpc = "acquire"
    /\ lock = Unlocked
    /\ lock' = CaptureThread
    /\ cpc' = "store"
    /\ UNCHANGED <<recorder, late, main_vars, stop, latest_original,
                   frame_seq, capture_locals, session_vars>>

\* self._latest_original = orig_buf.tobytes()
LoopStore ==
    /\ cpc = "store"
    /\ latest_original' = orig_buf
    /\ cpc' = "incr"
    /\ UNCHANGED <<recorder, late, main_vars, stop, lock, frame_seq,
                   capture_locals, session_vars>>

\* self._frame_seq += 1
LoopIncrement ==
    /\ cpc = "incr"
    /\ frame_seq' = NextSeq(frame_seq)
    /\ late_pub' = IF stop THEN late_pub + 1 ELSE late_pub
    /\ cpc' = "notify"
    /\ UNCHANGED <<recorder, late_parts, main_vars, stop, lock,
                   latest_original, capture_locals, session_vars>>

\* Fault variant of LoopNotifyAll: notify(), which wakes one waiter
NotifyOne ==
    /\ cpc = "notify"
    /\ IF \E s \in Sessions : pc[s] = "waiting"
         THEN \E s \in Sessions :
                /\ pc[s] = "waiting"
                /\ pc' = [pc EXCEPT ![s] = "woken"]
         ELSE pc' = pc
    /\ cpc' = "release"
    /\ UNCHANGED <<recorder, late, main_vars, hub, capture_locals, last_seq,
                   frame, seq, wfile>>

\* self._condition.notify_all(): every thread in wait() is woken
LoopNotifyAll ==
    /\ cpc = "notify"
    /\ pc' = [s \in Sessions |->
                IF pc[s] = "waiting" THEN "woken" ELSE pc[s]]
    /\ cpc' = "release"
    /\ UNCHANGED <<recorder, late, main_vars, hub, capture_locals, last_seq,
                   frame, seq, wfile>>

\* with self._condition: (exit); then sleep(capture_interval)
LoopRelease ==
    /\ cpc = "release"
    /\ lock' = Unlocked
    /\ cpc' = "loop"
    /\ UNCHANGED <<recorder, late, main_vars, stop, latest_original,
                   frame_seq, capture_locals, session_vars>>

\* ------------------------------- session thread: do_GET("/stream")

\* do_GET: path == "/stream": send_response(200), headers, then
\* svc.frame_generator() is entered: boundary, last_seq = -1.
\* Requests are accepted while main() is in httpd.serve_forever(); sessions
\* are numbered in the order their requests arrive.
Connect(s) ==
    /\ pc[s] = "idle"
    /\ mpc = "serving"
    /\ \A t \in Sessions : t < s => pc[t] # "idle"
    /\ pc' = [pc EXCEPT ![s] = "outer"]
    /\ last_seq' = [last_seq EXCEPT ![s] = InitialLastSeq]
    /\ UNCHANGED <<recorder, late, main_vars, hub, cpc, capture_locals, frame,
                   seq, wfile>>

\* The generator's frame ends (return, break, or close() after the handler
\* dropped it): its locals last_seq, frame and seq are gone
Locals(f, s, v) == [f EXCEPT ![s] = v]
Gone(s) ==
    /\ last_seq' = Locals(last_seq, s, InitialLastSeq)
    /\ frame' = Locals(frame, s, None)
    /\ seq' = Locals(seq, s, InitialFrameSeq)

\* while not self._stop.is_set():   (the generator returns when it is set)
OuterCheck(s) ==
    /\ pc[s] = "outer"
    /\ IF stop
         THEN /\ pc' = [pc EXCEPT ![s] = "ended"]
              /\ Gone(s)
         ELSE /\ pc' = [pc EXCEPT ![s] = "lock"]
              /\ UNCHANGED <<last_seq, frame, seq>>
    /\ UNCHANGED <<recorder, late, main_vars, hub, cpc, capture_locals,
                   wfile>>

\* Fault variant of SessionAcquire: the reads made without the lock
SessionAcquireNoLock(s) ==
    /\ pc[s] = "lock"
    /\ lock' = lock
    /\ pc' = [pc EXCEPT ![s] = "inner"]
    /\ UNCHANGED <<recorder, late, main_vars, stop, latest_original,
                   frame_seq, cpc, capture_locals, last_seq, frame, seq,
                   wfile>>

\* with self._condition:   (enter)
SessionAcquire(s) ==
    /\ pc[s] = "lock"
    /\ lock = Unlocked
    /\ lock' = s
    /\ pc' = [pc EXCEPT ![s] = "inner"]
    /\ UNCHANGED <<recorder, late, main_vars, stop, latest_original,
                   frame_seq, cpc, capture_locals, last_seq, frame, seq,
                   wfile>>

\* Fault variant of InnerCheck: the session sleeps its second with the
\* lock kept, where wait() would release it
InnerCheckKeepsLock(s) ==
    /\ pc[s] = "inner"
    /\ lock' = lock
    /\ IF last_seq[s] = frame_seq /\ ~stop
         THEN pc' = [pc EXCEPT ![s] = "waiting"]
         ELSE pc' = [pc EXCEPT ![s] = "take"]
    /\ UNCHANGED <<recorder, late, main_vars, stop, latest_original,
                   frame_seq, cpc, capture_locals, last_seq, frame, seq,
                   wfile>>

\* while last_seq == self._frame_seq and not self._stop.is_set():
\*     self._condition.wait(timeout=1.0)     (wait releases the lock)
InnerCheck(s) ==
    /\ pc[s] = "inner"
    /\ IF last_seq[s] = frame_seq /\ ~stop
         THEN /\ lock' = Unlocked
              /\ pc' = [pc EXCEPT ![s] = "waiting"]
         ELSE /\ lock' = lock
              /\ pc' = [pc EXCEPT ![s] = "take"]
    /\ UNCHANGED <<recorder, late, main_vars, stop, latest_original,
                   frame_seq, cpc, capture_locals, last_seq, frame, seq,
                   wfile>>

\* Fault variant of Timeout: wait() without a timeout never times out
WaitForever(s) ==
    /\ FALSE
    /\ UNCHANGED vars

\* wait(timeout=1.0): the second passes without a notify (wait's result,
\* notified or timed out, is not looked at by the generator)
Timeout(s) ==
    /\ pc[s] = "waiting"
    /\ pc' = [pc EXCEPT ![s] = "woken"]
    /\ UNCHANGED <<recorder, late, main_vars, hub, cpc, capture_locals,
                   last_seq, frame, seq, wfile>>

\* Fault variant of Reacquire: "if" for the inner "while", so the session
\* goes on after one wait whatever woke it
WakeOnce(s) ==
    /\ pc[s] = "woken"
    /\ lock = Unlocked
    /\ lock' = s
    /\ pc' = [pc EXCEPT ![s] = "take"]
    /\ UNCHANGED <<recorder, late, main_vars, stop, latest_original,
                   frame_seq, cpc, capture_locals, last_seq, frame, seq,
                   wfile>>

\* wait() returns only once it holds the lock again; the inner while is
\* evaluated again
Reacquire(s) ==
    /\ pc[s] = "woken"
    /\ lock = Unlocked
    /\ lock' = s
    /\ pc' = [pc EXCEPT ![s] = "inner"]
    /\ UNCHANGED <<recorder, late, main_vars, stop, latest_original,
                   frame_seq, cpc, capture_locals, last_seq, frame, seq,
                   wfile>>

\* Fault variant of Take: the yield inside the with block, so the lock is
\* kept while do_GET writes the chunk
TakeYieldsUnderLock(s) ==
    /\ pc[s] = "take"
    /\ IF stop
         THEN /\ pc' = [pc EXCEPT ![s] = "ended"]
              /\ lock' = Unlocked
              /\ Gone(s)
         ELSE /\ frame' = [frame EXCEPT ![s] = latest_original]
              /\ seq' = [seq EXCEPT ![s] = TakeSeq(s)]
              /\ lock' = lock
              /\ IF FrameAbsent(latest_original)
                   THEN /\ pc' = [pc EXCEPT ![s] = "outer"]
                        /\ last_seq' = last_seq
                   ELSE /\ pc' = [pc EXCEPT ![s] = "write"]
                        /\ last_seq' = [last_seq EXCEPT ![s] = TakeSeq(s)]
    /\ UNCHANGED <<recorder, late, main_vars, stop, latest_original,
                   frame_seq, cpc, capture_locals, wfile>>

\* if self._stop.is_set(): break     (leaving the with block releases)
\* frame = self._latest_original; seq = self._frame_seq; the with block
\* ends (release); if frame is None: continue; last_seq = seq; yield part
\* (the generator is suspended at the yield while do_GET writes the chunk)
Take(s) ==
    /\ pc[s] = "take"
    /\ lock' = Unlocked
    /\ IF stop
         THEN /\ pc' = [pc EXCEPT ![s] = "ended"]
              /\ Gone(s)
         ELSE /\ frame' = [frame EXCEPT ![s] = latest_original]
              /\ seq' = [seq EXCEPT ![s] = TakeSeq(s)]
              /\ IF FrameAbsent(latest_original)
                   THEN /\ pc' = [pc EXCEPT ![s] = "outer"]
                        /\ last_seq' = last_seq
                   ELSE /\ pc' = [pc EXCEPT ![s] = "write"]
                        /\ last_seq' = [last_seq EXCEPT ![s] = TakeSeq(s)]
    /\ UNCHANGED <<recorder, late, main_vars, stop, latest_original,
                   frame_seq, cpc, capture_locals, wfile>>

\* do_GET: self.wfile.write(chunk) succeeds; the for loop resumes the
\* generator, which goes back to its outer while
WriteOk(s) ==
    /\ pc[s] = "write"
    /\ wfile' = [wfile EXCEPT ![s] = Chunk(frame[s], seq[s])]
    /\ late_parts' = [late_parts EXCEPT
                        ![s] = IF stop THEN @ + 1 ELSE @]
    /\ pc' = [pc EXCEPT ![s] = "outer"]
    /\ UNCHANGED <<recorder, late_pub, main_vars, hub, cpc, capture_locals,
                   last_seq, frame, seq>>

\* Fault variant of WriteFails: the handler stops the service on an error
WriteFailsStopsService(s) ==
    /\ pc[s] = "write"
    /\ pc' = [pc EXCEPT ![s] = "closed"]
    /\ Gone(s)
    /\ stop' = TRUE
    /\ UNCHANGED <<recorder, late, main_vars, lock, latest_original,
                   frame_seq, cpc, capture_locals, wfile>>

\* do_GET: self.wfile.write(chunk) raises: BrokenPipeError -> break, any
\* other Exception -> except: pass; do_GET returns, the generator is dropped
WriteFails(s) ==
    /\ pc[s] = "write"
    /\ pc' = [pc EXCEPT ![s] = "closed"]
    /\ Gone(s)
    /\ UNCHANGED <<recorder, late, main_vars, hub, cpc, capture_locals,
                   wfile>>

\* ---------------------------------------------------------------- Next

Next ==
    \/ Start
    \/ StopSet
    \/ JoinAndRelease
    \/ LoopCheck
    \/ CaptureRaises
    \/ CaptureNone
    \/ CaptureOk
    \/ EncodeOk
    \/ EncodeFails
    \/ LoopAcquire
    \/ LoopStore
    \/ LoopIncrement
    \/ LoopNotifyAll
    \/ LoopRelease
    \/ \E s \in Sessions : Connect(s)
    \/ \E s \in Sessions : OuterCheck(s)
    \/ \E s \in Sessions : SessionAcquire(s)
    \/ \E s \in Sessions : InnerCheck(s)
    \/ \E s \in Sessions : Timeout(s)
    \/ \E s \in Sessions : Reacquire(s)
    \/ \E s \in Sessions : Take(s)
    \/ \E s \in Sessions : WriteOk(s)
    \/ \E s \in Sessions : WriteFails(s)

Spec == Init /\ [][Next]_vars

\* Scheduling the liveness claims rest on: a thread that can take a step
\* takes it (the 1 s of wait(timeout=1.0) passes; a thread holding the lock
\* runs on and releases it), and a thread that is offered the lock again and
\* again gets it.  Nothing is assumed of the camera, of the encoder, of the
\* clients (a write may stall for ever) or of the controller.
SessionFairness(s) ==
    /\ WF_vars(OuterCheck(s))
    /\ SF_vars(SessionAcquire(s))
    /\ WF_vars(InnerCheck(s))
    /\ WF_vars(Timeout(s))
    /\ SF_vars(Reacquire(s))
    /\ WF_vars(Take(s))

LoopFairness ==
    /\ WF_vars(LoopStore)
    /\ WF_vars(LoopIncrement)
    /\ WF_vars(LoopNotifyAll)
    /\ WF_vars(LoopRelease)

FairSpec == Spec /\ LoopFairness /\ \A s \in Sessions : SessionFairness(s)

\* Scheduling of the capture thread: it runs on when it can; a call of
\* capture_array or imencode returns or raises; the lock it asks for again
\* and again is given to it.
CaptureReturns == CaptureRaises \/ CaptureNone \/ CaptureOk
EncodeReturns == EncodeOk \/ EncodeFails
CaptureFairness ==
    /\ WF_vars(LoopCheck)
    /\ WF_vars(CaptureReturns)
    /\ WF_vars(EncodeReturns)
    /\ SF_vars(LoopAcquire)

FairLoopSpec == FairSpec /\ CaptureFairness

\* ------------------------------------- main(): the server as it is built

\* do_GET: path == "/": send_response(200), text/html, the index page
PageChunk == [part |-> <<"200", "text/html", "index.html">>,
              seq |-> InitialLastSeq]

\* A request is inside do_GET (http.server runs do_GET on the thread that
\* called serve_forever)
InHandler(s) ==
    pc[s] \in {"outer", "lock", "inner", "waiting", "woken", "take", "write"}

\* HTTPServer is socketserver.TCPServer without a threading mix-in:
\* serve_forever handles one request at a time, the next one when do_GET of
\* the one before has returned
ServerFree == \A t \in Sessions : ~InHandler(t)

\* httpd.serve_forever(): GET /stream is handled
ServeStream(s) ==
    /\ ServerFree
    /\ Connect(s)

\* httpd.serve_forever(): GET / is handled, do_GET returns at once
ServePage(s) ==
    /\ ServerFree
    /\ pc[s] = "idle"
    /\ mpc = "serving"
    /\ \A t \in Sessions : t < s => pc[t] # "idle"
    /\ pc' = [pc EXCEPT ![s] = "served"]
    /\ wfile' = [wfile EXCEPT ![s] = PageChunk]
    /\ UNCHANGED <<recorder, late, main_vars, hub, cpc, capture_locals,
                   last_seq, frame, seq>>

\* main(): KeyboardInterrupt on the main thread: a do_GET in progress is
\* unwound (its generator closed, the with block released), serve_forever
\* is left; finally: httpd.shutdown(), service.stop() -> self._stop.set()
InterruptServer ==
    /\ mpc = "serving"
    /\ stop' = TRUE
    /\ mpc' = "join"
    /\ pc' = [s \in Sessions |-> IF InHandler(s) THEN "closed" ELSE pc[s]]
    /\ last_seq' = [s \in Sessions |->
                      IF InHandler(s) THEN InitialLastSeq ELSE last_seq[s]]
    /\ frame' = [s \in Sessions |-> IF InHandler(s) THEN None ELSE frame[s]]
    /\ seq' = [s \in Sessions |->
                 IF InHandler(s) THEN InitialFrameSeq ELSE seq[s]]
    /\ lock' = IF lock \in Sessions THEN Unlocked ELSE lock
    /\ UNCHANGED <<recorder, late, camera, latest_original, frame_seq, cpc,
                   capture_locals, wfile>>

NextServer ==
    \/ Start
    \/ InterruptServer
    \/ JoinAndRelease
    \/ LoopCheck
    \/ CaptureRaises
    \/ CaptureNone
    \/ CaptureOk
    \/ EncodeOk
    \/ EncodeFails
    \/ LoopAcquire
    \/ LoopStore
    \/ LoopIncrement
    \/ LoopNotifyAll
    \/ LoopRelease
    \/ \E s \in Sessions : ServeStream(s)
    \/ \E s \in Sessions : ServePage(s)
    \/ \E s \in Sessions : OuterCheck(s)
    \/ \E s \in Sessions : SessionAcquire(s)
    \/ \E s \in Sessions : InnerCheck(s)
    \/ \E s \in Sessions : Timeout(s)
    \/ \E s \in Sessions : Reacquire(s)
    \/ \E s \in Sessions : Take(s)
    \/ \E s \in Sessions : WriteOk(s)
    \/ \E s \in Sessions : WriteFails(s)

SpecServer == Init /\ [][NextServer]_vars

\* --------------------------------------- record.py: CCTVRecorder.run()
\* The recorder is a program of its own: one thread, the main flow of
\* run(), and the handler shutdown() that Python runs on that thread
\* between two of its steps when SIGINT or SIGTERM has arrived.  shutdown()
\* itself is straight-line code during which run() stands still, so it is
\* one step; a further signal is taken once the handler has returned.

\* datetime.now().hour, at the edges of the recording window
Hours == {START_HOUR - 1, START_HOUR, END_HOUR, END_HOUR + 1}

\* if START_HOUR <= current_hour <= END_HOUR:
InWindow(h) == START_HOUR <= h /\ h <= END_HOUR

RunActive == rpc \notin {"returned", "raised"}

\* while self.running:
RunWhile ==
    /\ rpc = "while"
    /\ rpc' = IF running THEN "clock" ELSE "returned"
    /\ UNCHANGED <<streaming, process, running, alive, spawned, signals>>

\* now = datetime.now(); current_hour = now.hour; the window test
RunClock(h) ==
    /\ rpc = "clock"
    /\ rpc' = IF InWindow(h) THEN "day" ELSE "night"
    /\ UNCHANGED <<streaming, process, running, alive, spawned, signals>>

\* if self.process is None: self.start_camera()   elif ...
RunDay ==
    /\ rpc = "day"
    /\ rpc' = IF process = NoProcess THEN "start_camera" ELSE "poll"
    /\ UNCHANGED <<streaming, process, running, alive, spawned, signals>>

\* start_camera: if self.process is None:
StartCameraTest ==
    /\ rpc = "start_camera"
    /\ rpc' = IF process = NoProcess THEN "popen" ELSE "cleanup_test"
    /\ UNCHANGED <<streaming, process, running, alive, spawned, signals>>

\* start_camera: subprocess.Popen(CMD_ARGS) starts a child
Popen ==
    /\ rpc = "popen"
    /\ spawned < MaxChildren
    /\ spawned' = spawned + 1
    /\ alive' = alive \cup {spawned + 1}
    /\ rpc' = "assign"
    /\ UNCHANGED <<streaming, process, running, signals>>

\* start_camera: self.process = (the Popen object)
AssignProcess ==
    /\ rpc = "assign"
    /\ process' = spawned
    /\ rpc' = "cleanup_test"
    /\ UNCHANGED <<streaming, running, alive, spawned, signals>>

\* elif self.process.poll() is not None:   (self.process is read again: it
\* is None when shutdown() ran after the test before -> AttributeError)
RunPoll ==
    /\ rpc = "poll"
    /\ rpc' = IF process = NoProcess THEN "raised"
              ELSE IF process \notin alive THEN "clear"
              ELSE "cleanup_test"
    /\ UNCHANGED <<streaming, process, running, alive, spawned, signals>>

\* self.process = None   (the child has ended by itself)
RunClear ==
    /\ rpc = "clear"
    /\ process' = NoProcess
    /\ rpc' = "cleanup_test"
    /\ UNCHANGED <<streaming, running, alive, spawned, signals>>

\* else: if self.process is not None: self.stop_camera()
RunNight ==
    /\ rpc = "night"
    /\ rpc' = IF process # NoProcess THEN "stop_camera" ELSE "cleanup_test"
    /\ UNCHANGED <<streaming, process, running, alive, spawned, signals>>

\* stop_camera: if self.process:
StopCameraTest ==
    /\ rpc = "stop_camera"
    /\ rpc' = IF process # NoProcess THEN "terminate" ELSE "cleanup_test"
    /\ UNCHANGED <<streaming, process, running, alive, spawned, signals>>

\* stop_camera: self.process.terminate(); self.process.wait(timeout=5),
\* on TimeoutExpired self.process.kill(): the child has ended, or is
\* killed (self.process is read again: None -> AttributeError)
StopCameraTerminate ==
    /\ rpc = "terminate"
    /\ IF process = NoProcess
         THEN rpc' = "raised" /\ alive' = alive
         ELSE rpc' = "forget" /\ alive' = alive \ {process}
    /\ UNCHANGED <<streaming, process, running, spawned, signals>>

\* stop_camera: self.process = None
StopCameraForget ==
    /\ rpc = "forget"
    /\ process' = NoProcess
    /\ rpc' = "cleanup_test"
    /\ UNCHANGED <<streaming, running, alive, spawned, signals>>

\* if self.process is not None: self.cleanup_disk()
CleanupTest ==
    /\ rpc = "cleanup_test"
    /\ rpc' = IF process # NoProcess THEN "cleanup_disk" ELSE "sleep"
    /\ UNCHANGED <<streaming, process, running, alive, spawned, signals>>

\* cleanup_disk(): removes at most one old file, errors swallowed
CleanupDisk ==
    /\ rpc = "cleanup_disk"
    /\ rpc' = "sleep"
    /\ UNCHANGED <<streaming, process, running, alive, spawned, signals>>

\* time.sleep(10)
Sleep ==
    /\ rpc = "sleep"
    /\ rpc' = "while"
    /\ UNCHANGED <<streaming, process, running, alive, spawned, signals>>

\* SIGINT / SIGTERM: shutdown(signum, frame) runs between two steps of
\* run(): self.stop_camera() (terminate, wait or kill, self.process = None
\* when there is a process), then self.running = False
Shutdown ==
    /\ RunActive
    /\ signals < MaxSignals
    /\ signals' = signals + 1
    /\ alive' = IF process # NoProcess THEN alive \ {process} ELSE alive
    /\ process' = NoProcess
    /\ running' = FALSE
    /\ UNCHANGED <<streaming, rpc, spawned>>

\* rpicam-vid ends by itself
ChildExits(c) ==
    /\ RunActive
    /\ c \in alive
    /\ alive' = alive \ {c}
    /\ UNCHANGED <<streaming, rpc, process, running, spawned, signals>>

NextRecorder ==
    \/ RunWhile
    \/ \E h \in Hours : RunClock(h)
    \/ RunDay
    \/ StartCameraTest
    \/ Popen
    \/ AssignProcess
    \/ RunPoll
    \/ RunClear
    \/ RunNight
    \/ StopCameraTest
    \/ StopCameraTerminate
    \/ StopCameraForget
    \/ CleanupTest
    \/ CleanupDisk
    \/ Sleep
    \/ Shutdown
    \/ \E c \in Children : ChildExits(c)

SpecRecorder == Init /\ [][NextRecorder]_vars

\* ------------------------------------------------------------- helpers

InWait(s) == pc[s] \in {"waiting", "woken"}
InGenerator(s) ==
    pc[s] \in {"outer", "lock", "inner", "waiting", "woken", "take"}
PublishPath == {"acquire", "store", "incr", "notify", "release"}

\* ---------------------------------------------------------------- C1
\* C1: every change of _frame_seq is an increase by exactly 1, made by the
\* capture thread while it holds the condition's lock, after it stored the
\* newly encoded frame under that same hold of the lock; so over any run
\* the version never decreases and never jumps by more than 1.
C1_PublishIncrementsByOne ==
    [][frame_seq' # frame_seq =>
          /\ frame_seq' = frame_seq + 1
          /\ cpc = "incr"
          /\ lock = CaptureThread /\ lock' = CaptureThread
          /\ latest_original = orig_buf
          /\ latest_original' = latest_original]_vars

C1_Witness == frame_seq = 2 /\ cpc = "notify" /\ lock = CaptureThread

\* ---------------------------------------------------------------- C2
\* C2: each part a session writes carries a version strictly greater than
\* the one it wrote before, and a session goes on from its wait to take a
\* frame only when the hub's version is newer than its last_seq (or stop is
\* set): a wait that times out with no new publish yields no part.
C2_SessionVersionsIncrease ==
    [][\A s \in Sessions :
          /\ (pc[s] = "write" /\ pc'[s] = "outer") =>
                wfile'[s].seq > wfile[s].seq
          /\ (pc[s] # "take" /\ pc'[s] = "take" /\ ~stop) =>
                last_seq[s] < frame_seq]_vars

C2_Witness ==
    \E s \in Sessions :
        /\ pc[s] = "woken"
        /\ last_seq[s] = frame_seq
        /\ frame_seq >= 2
        /\ wfile[s].seq = frame_seq

\* ---------------------------------------------------------------- C3
\* C3: whatever a session has missed, the pair it takes is the hub's
\* current (frame, version) at that moment, and the part it then writes is
\* that pair: versions between its previous part and the current one are
\* never written by it.
C3_LatestWins ==
    [][\A s \in Sessions :
          /\ (pc[s] = "take" /\ pc'[s] = "write") =>
                /\ seq'[s] = frame_seq
                /\ frame'[s] = latest_original
                /\ last_seq'[s] = frame_seq
          /\ (pc[s] = "write" /\ pc'[s] = "outer") =>
                wfile'[s] = Chunk(frame[s], last_seq[s])]_vars

C3_Witness ==
    \E s \in Sessions :
        /\ pc[s] = "write"
        /\ wfile[s].seq >= 1
        /\ seq[s] >= wfile[s].seq + 2
        /\ seq[s] = frame_seq

\* ---------------------------------------------------------------- C4
\* C4: a session that has written nothing yet never waits on the condition
\* (its last_seq of -1 differs from every version), so once a frame has
\* been published it takes the current one without a further publish; no
\* part carries the absent frame; and before the first publish no session
\* has written, or is about to write, anything.
C4_FirstPart ==
    \A s \in Sessions :
        /\ InWait(s) => wfile[s] # NoChunk
        /\ pc[s] = "write" => frame[s] # None
        /\ wfile[s] # NoChunk => wfile[s].part # Part(None)
        /\ frame_seq = InitialFrameSeq =>
              (wfile[s] = NoChunk /\ pc[s] # "write")

C4_Witness ==
    \E s \in Sessions :
        /\ pc[s] = "write"
        /\ wfile[s] = NoChunk
        /\ seq[s] = 2
        /\ frame[s] = latest_original
        /\ pc[1] = "waiting"

\* ---------------------------------------------------------------- C5
\* C5: a publish wakes every session blocked in the wait, not just one:
\* outside the instant between the increment and notify_all, no session is
\* left blocked with a last_seq older than the hub's version; and sessions
\* that took the same version took the same frame.
C5_Broadcast ==
    /\ \A s \in Sessions :
          pc[s] = "waiting" => (last_seq[s] = frame_seq \/ cpc = "notify")
    /\ \A s, t \in Sessions :
          /\ (pc[s] = "write" /\ pc[t] = "write" /\ seq[s] = seq[t]) =>
                frame[s] = frame[t]
          /\ wfile[s].seq = wfile[t].seq => wfile[s] = wfile[t]

C5_Witness ==
    /\ cpc = "release"
    /\ frame_seq >= 2
    /\ \A s \in Sessions : pc[s] = "woken" /\ last_seq[s] = frame_seq - 1

\* ---------------------------------------------------------------- C6
\* C6: once stop is set, every session that is inside frame_generator and
\* not suspended in a connection write -- blocked in the wait, or on its way
\* to it -- eventually ends with the stopped outcome, with no further
\* publish needed.
C6_StoppedSessionsEnd ==
    \A s \in Sessions : (stop /\ InGenerator(s)) ~> (pc[s] = "ended")

C6_Witness ==
    /\ stop
    /\ cpc = "exit"
    /\ \E s, t \in Sessions : pc[s] = "ended" /\ pc[t] = "waiting"

\* ---------------------------------------------------------------- C7
\* C7: stop() sets the flag in mutual exclusion with the holders of the
\* condition's lock (no other thread holds the lock when the flag changes),
\* and it releases the blocked sessions itself: the step that sets the flag
\* leaves no session blocked in the condition wait.
C7_StopUnderLockWakesWaiters ==
    [][(~stop /\ stop') =>
          /\ lock = Unlocked
          /\ \A s \in Sessions : pc'[s] # "waiting"]_vars

\* ---------------------------------------------------------------- C8
\* C8: a capture that raises or returns None takes the loop back to its
\* head with the hub's frame and version, and the sessions, untouched; the
\* publish path is entered only with a captured frame; and the loop has
\* exited only if stop is set.  So N failures and one success add exactly 1.
C8_CaptureFailureIsolated ==
    /\ [](cpc \in PublishPath \cup {"encode"} => bgr # None)
    /\ [](cpc = "exit" => stop)
    /\ [][(cpc = "capture" /\ cpc' \notin {"capture", "encode"}) =>
             /\ cpc' = "loop"
             /\ frame_seq' = frame_seq
             /\ latest_original' = latest_original
             /\ pc' = pc]_vars

C8_Witness ==
    /\ cpc = "capture"
    /\ bgr = None
    /\ frame_seq = 1
    /\ latest_original # None
    /\ ~stop

C10_WriteFailureIsLocal ==
    [][\A s \in Sessions :
          (pc[s] = "write" /\ pc'[s] = "closed") =>
             /\ UNCHANGED <<main_vars, hub, cpc, capture_locals, wfile>>
             /\ \A t \in Sessions \ {s} :
                   /\ pc'[t] = pc[t]
                   /\ last_seq'[t] = last_seq[t]
                   /\ frame'[t] = frame[t]
                   /\ seq'[t] = seq[t]]_vars

C10_Witness ==
    \E s, t \in Sessions :
        /\ pc[s] = "closed"
        /\ pc[t] = "write"
        /\ seq[t] = frame_seq
        /\ seq[t] > wfile[s].seq
        /\ wfile[t].seq > wfile[s].seq
        /\ ~stop

\* ---------------------------------------------------------------- C11
\* C11: viewers are served concurrently: whenever the server is serving, a
\* viewer whose request arrives next is served, be it GET /stream or GET /,
\* also while the /stream session of another viewer is active and still
\* connected.
C11_ViewersServedConcurrently ==
    \A s \in Sessions :
        (/\ mpc = "serving"
         /\ pc[s] = "idle"
         /\ \A t \in Sessions : t < s => pc[t] # "idle")
        => (ENABLED ServeStream(s)) /\ (ENABLED ServePage(s))

\* ---------------------------------------------------------------- C12
\* C12: a session holds the condition's lock only between entering the
\* with block and taking the frame, never while its chunk is being written
\* (nor while it waits or is outside the generator); so a session stalled
\* in a write leaves the lock to the capture thread and to the other
\* sessions.
C12_NoLockWhileWriting ==
    \A s \in Sessions :
        /\ pc[s] = "write" => lock # s
        /\ lock = s => pc[s] \in {"inner", "take"}

\* session s took version 1 and has been in its first write ever since,
\* while versions 2 and 3 were published and session t received version 3
C12_Witness ==
    \E s, t \in Sessions :
        /\ pc[s] = "write" /\ seq[s] = 1 /\ wfile[s] = NoChunk
        /\ frame_seq = 3
        /\ wfile[t].seq = 3

C14_CameraReleasedAfterLoopExit ==
    camera = "closed" => cpc \notin {"capture"}

\* ---------------------------------------------------------------- C15
\* C15: no deadlock: whoever holds the condition's lock can take its next
\* step (it is never held by a thread that is waiting or blocked); the
\* capture thread that asks for the lock eventually gets it and then
\* publishes; a session that asks for the lock eventually gets it; and a
\* session in the condition wait eventually leaves the wait (by a publish,
\* by the timeout, or with stop set once the timeout has passed).
LockHolderRuns ==
    /\ lock = CaptureThread =>
          ENABLED (LoopStore \/ LoopIncrement \/ LoopNotifyAll \/ LoopRelease)
    /\ \A s \in Sessions : lock = s => ENABLED (InnerCheck(s) \/ Take(s))

C15_NoDeadlock ==
    /\ []LockHolderRuns
    /\ (cpc = "acquire") ~> (cpc = "notify")
    /\ \A s \in Sessions : (pc[s] = "lock") ~> (lock = s)
    /\ \A s \in Sessions : InWait(s) ~> (pc[s] = "inner")

\* the lock is held by a session while the capture thread and the other
\* session, woken from its wait, both ask for it
C15_Witness ==
    \E s, t \in Sessions :
        /\ lock = s
        /\ cpc = "acquire"
        /\ pc[t] = "woken"
        /\ ~stop

\* ---------------------------------------------------------------- C16
\* C16: no tearing: the frame and the version a session takes were stored
\* by the same publish.  Publish number v stores the encoding of raw frame
\* v, so this says: the frame a session holds for writing, and the part it
\* wrote last, is the encoding numbered by the version taken with it; and
\* whenever the capture thread is outside its critical section the hub
\* holds such a pair.
Published(v) == Encode(RawFrame(v))

C16_NoTearing ==
    /\ \A s \in Sessions :
          /\ pc[s] = "write" => frame[s] = Published(seq[s])
          /\ wfile[s] # NoChunk =>
                wfile[s].part = Part(Published(wfile[s].seq))
    /\ (lock # CaptureThread /\ frame_seq # InitialFrameSeq) =>
          latest_original = Published(frame_seq)

\* a session holds the pair of publish 2 for writing while publish 3 is
\* half done: frame 3 stored, version still 2
C16_Witness ==
    \E s \in Sessions :
        /\ pc[s] = "write" /\ seq[s] = 2
        /\ cpc = "incr"
        /\ latest_original = Published(3) /\ frame_seq = 2

\* ---------------------------------------------------------------- C17
\* C17 as stated: in every reachable state the stored frame is None
\* exactly when the version is 0.
C17_FrameAbsentIffVersionZero ==
    (latest_original = None) <=> (frame_seq = InitialFrameSeq)

\* C17 amended: in every reachable state a stored frame of None implies
\* version 0, and a frame once stored is never reset to None (not by a
\* failed capture or encode, not by stop); version 0 implies a stored frame
\* of None in every state except those in which the capture thread, holding
\* the lock, has stored the first frame and not yet incremented the version.
C17_FrameAbsentIffVersionZeroOutsidePublish ==
    /\ [](latest_original = None => frame_seq = InitialFrameSeq)
    /\ [](cpc # "incr" =>
            (frame_seq = InitialFrameSeq => latest_original = None))
    /\ [][latest_original # None => latest_original' # None]_vars

\* after a publish, a failed encode and stop: the frame is still there
C17_Witness ==
    /\ stop
    /\ cpc = "exit"
    /\ ~ok_orig
    /\ frame_seq = 1 /\ latest_original = Encode(RawFrame(1))

\* ---------------------------------------------------------------- C18
\* C18: after stop() has set the Event the capture thread publishes at most
\* one more frame and each session writes at most one more part; once that
\* publish is made the version never changes again, and once a session has
\* written that part its output never changes again.
C18_AtMostOneAfterStop ==
    /\ [](late_pub <= 1 /\ \A s \in Sessions : late_parts[s] <= 1)
    /\ [][stop /\ late_pub = 1 =>
             frame_seq' = frame_seq /\ latest_original' = latest_original]_vars
    /\ [][\A s \in Sessions :
             stop /\ late_parts[s] = 1 => wfile'[s] = wfile[s]]_vars

\* the thread has published its one late frame and ended, and a session
\* has written its one late part and ended
C18_Witness ==
    \E s \in Sessions :
        /\ late_pub = 1 /\ cpc = "exit"
        /\ late_parts[s] = 1 /\ pc[s] = "ended"

\* ---------------------------------------------------------------- C19
\* C19: a session that is at its inner while test with nothing to deliver
\* (no frame stored yet, or no publish since the part it yielded last) and
\* with stop not set goes from there into the condition wait, not on to
\* another round of its loop.
NothingToDeliver(s) ==
    \/ latest_original = None
    \/ last_seq[s] = frame_seq

C19_IdleSessionWaits ==
    [][\A s \in Sessions :
          (/\ pc[s] = "inner" /\ pc'[s] # "inner"
           /\ NothingToDeliver(s)
           /\ ~stop /\ ~stop')
          => pc'[s] = "waiting"]_vars

\* ---------------------------------------------------------------- C20
\* C20: whenever run() has returned, no recording child is left: the
\* recorder holds no process and no child it started is still running.
C20_NoChildAfterRunReturns ==
    rpc = "returned" => process = NoProcess /\ alive = {}

====
